---- MODULE Spec2Model ----
(***************************************************************************)
(* Model of nerva-pi-server.                                               *)
(*                                                                         *)
(*  - network_monitor.py : NetworkMonitor, the connectivity supervisor     *)
(*    that starts and stops the broadcaster as an operating-system process *)
(*    (specification Spec), and its shutdown on SIGINT / SIGTERM           *)
(*    (specification SpecSignal), and its address detector                 *)
(*    get_interface_ip with the filter _is_valid_ip (specification         *)
(*    SpecDetect).                                                         *)
(*  - stats_broadcaster.py : the registry of subscribers                   *)
(*    (connected_clients), handle_client and the broadcast_stats loop      *)
(*    (specification SpecBroadcast), and the server's life in main, from   *)
(*    websockets.serve to the end of the process (specification            *)
(*    SpecShutdown).                                                       *)
(***************************************************************************)
EXTENDS Integers, FiniteSets, Sequences, TLC

(***************************************************************************)
(* Bounds of the model.                                                    *)
(***************************************************************************)
\* number of process ids the operating system hands out in one run
MaxPid == 3
\* number of distinct interface addresses the detector can report
NumAddrs == 2
\* number of subscriber connections accepted in one run
MaxClients == 3
\* number of dot-separated parts of an address string handed to the filter
MaxParts == 5
\* number of address lines `ip addr show` prints for the interface
MaxLines == 2

Pids == 1..MaxPid
Clients == 1..MaxClients
Addrs == 1..NumAddrs
\* Python's None, for last_ip, server_process and the detected address
None == 0

VARIABLES
    \* ---- NetworkMonitor fields (network_monitor.py:29-36)
    is_connected,     \* self.is_connected
    last_ip,          \* self.last_ip : None or an address
    server_process,   \* self.server_process : None or the pid of the Popen handle
    running,          \* self.running
    \* ---- the supervisor's position in run() / check_connection() /
    \*      _start_server() / _stop_server()
    pc,
    popen_ret,        \* value returned by subprocess.Popen, not yet stored
    \* ---- the operating system's process table
    procs,            \* pid -> [st, match, pgid, term]
    \* ---- what the current poll step (check_connection call) has done
    poll_done,        \* TRUE in the state in which a poll step has just returned
    obs,              \* what the poll step observed: [ip, net]
    pre,              \* is_connected / last_ip when the poll step began
    startCalls,       \* calls of _start_server in this poll step
    stopCalls,        \* calls of _stop_server in this poll step
    launches,         \* subprocess.Popen launches in this poll step
    runSeen,          \* result of _is_server_running at line 238 / 244
    startSeen,        \* result of _is_server_running at line 151
    startRet,         \* value returned by _start_server
    onlyNoAddr,       \* every poll step so far observed no address
    \* ---- shutdown: _signal_handler (lines 42-47) and the end of run()
    in_handler,       \* _signal_handler is running on top of the interrupted code
    saved_pc,         \* where the handler interrupted the supervisor
    swallowed,        \* a bare `except:` has caught the handler's SystemExit
    cleanup,          \* run() has left its loop and is at line 280
    sigStop,          \* _stop_server has been called since the last signal
    \* ---- the detector called on its own (test_network.py:20, 34)
    detect_call,      \* the call of get_interface_ip: [env, ret, tried]
    valid_call,       \* the call of _is_valid_ip: [ip, ret]
    \* ---- stats_broadcaster.py: the registry and the connections
    connected_clients,    \* the global set connected_clients (line 34)
    ws,                   \* connection -> "new", "open", "closed", "done"
    \* ---- broadcast_stats: position, the set iterator and the tick's locals
    bpc,                  \* "sleep" (asyncio.sleep) or "sending" (await client.send)
    cur,                  \* the loop variable client
    it_left,              \* members the set iterator has still to yield
    it_size,              \* len(connected_clients) when the iterator was made
    disconnected_clients, \* the tick's local set disconnected_clients
    \* ---- what the current tick has done
    tick_members,         \* the registry when the tick began
    delivered,            \* connections whose send returned in this tick
    tick_result,          \* "none", "idle", "swept", "aborted", "skipped"
                          \* or "sweep_error"
    tick_done,            \* TRUE in the state in which a tick has just ended
    failed,               \* connections that have had a send fail
    unreg,                \* connection -> number of calls of unregister_client
    collected,            \* calls of get_stats in the current tick (line 416)
    serialized,           \* calls of json.dumps in the current tick (line 417)
    stats_json,           \* the tick's serialized snapshot: None, 1 or 2
    got,                  \* connection -> the message a send of this tick delivered
    \* ---- main (lines 444-486) and the process
    server,               \* the websockets server: "serving", "closing", "closed"
    broadcast_task,       \* the task of line 464: "running" or "cancelled"
    mpc                   \* main: "gather" (468), "wait_closed" (475), "exited"

supVars == << is_connected, last_ip, server_process, running, pc, popen_ret, procs,
              poll_done, obs, pre, startCalls, stopCalls, launches, runSeen,
              startSeen, startRet, onlyNoAddr, in_handler, saved_pc, swallowed,
              cleanup, sigStop, detect_call, valid_call >>

detVars == << detect_call, valid_call >>

\* the shutdown variables but swallowed
sigFrame == << in_handler, saved_pc, cleanup, sigStop >>

sigVars == << sigFrame, swallowed >>

bcVars == << connected_clients, ws, bpc, cur, it_left, it_size,
             disconnected_clients, tick_members, delivered, tick_result,
             tick_done, failed, unreg, server, broadcast_task, mpc,
             collected, serialized, stats_json, got >>

msgVars == << collected, serialized, stats_json, got >>

lifeVars == << server, broadcast_task, mpc >>

vars == << supVars, bcVars >>

(***************************************************************************)
(* The process table.  A process is the broadcaster when its command line  *)
(* matches 'stats_broadcaster.py' (pgrep -f / pkill -f).  The process that *)
(* Popen launches is ./start_server.sh, the leader of a new process group  *)
(* (preexec_fn=os.setsid); its command line does not match until the       *)
(* script has brought the broadcaster up.                                  *)
(***************************************************************************)
FreeProc == [st |-> "free", match |-> FALSE, pgid |-> None, term |-> FALSE]
DeadProc == [st |-> "dead", match |-> FALSE, pgid |-> None, term |-> FALSE]
\* a process that SIGKILL has ended
KilledProc == [st |-> "killed", match |-> FALSE, pgid |-> None, term |-> FALSE]
\* a process that has just been forked: term records a delivered SIGTERM
NewProc(m, g) == [st |-> "alive", match |-> m, pgid |-> g, term |-> FALSE]

Alive(ps, p) == ps[p].st = "alive"

FreePids(ps) == {p \in Pids : ps[p].st = "free"}

\* the pid the next fork gets
NewPid(ps) == CHOOSE p \in FreePids(ps) : \A q \in FreePids(ps) : p <= q

\* processes whose command line matches the signature 'stats_broadcaster.py'
Matching(ps) == {p \in Pids : Alive(ps, p) /\ ps[p].match}

\* members of process group g
Group(ps, g) == {p \in Pids : Alive(ps, p) /\ ps[p].pgid = g}

\* pgrep -f stats_broadcaster.py ; returncode == 0.  The bare except turns a
\* failure to run pgrep into False.
IsServerRunning(ps, pgrepOk) == pgrepOk /\ Matching(ps) # {}

\* SIGTERM delivered to every process of the set S.  Delivery does not end a
\* process: it exits when (and if) it chooses to, see ProcExit.
Termed(ps, S) == [p \in Pids |-> IF p \in S THEN [ps[p] EXCEPT !.term = TRUE] ELSE ps[p]]

\* SIGKILL delivered to every process of the set S
Killed(ps, S) == [p \in Pids |-> IF p \in S THEN KilledProc ELSE ps[p]]

(***************************************************************************)
(* Variants of the definitions below, each changed the way a slip in the   *)
(* code would change it.  The properties at the end of the module are      *)
(* checked to fail when a definition is replaced by its variant.           *)
(***************************************************************************)
\* check_connection without `self.last_ip = current_ip` (line 235)
CheckConnection_NoRecord(conn, last, ip, net) ==
    IF ip # None
    THEN IF net
         THEN IF ~conn \/ ip # last
              THEN [conn |-> TRUE, last |-> last, act |-> "check"]
              ELSE [conn |-> conn, last |-> last, act |-> "check"]
         ELSE IF conn
              THEN [conn |-> FALSE, last |-> last, act |-> "stop"]
              ELSE [conn |-> conn, last |-> last, act |-> "none"]
    ELSE IF conn
         THEN [conn |-> FALSE, last |-> None, act |-> "stop"]
         ELSE [conn |-> conn, last |-> last, act |-> "none"]

\* check_connection without `self.last_ip = None` (line 256)
CheckConnection_KeepLast(conn, last, ip, net) ==
    IF ip # None
    THEN IF net
         THEN IF ~conn \/ ip # last
              THEN [conn |-> TRUE, last |-> ip, act |-> "check"]
              ELSE [conn |-> conn, last |-> last, act |-> "check"]
         ELSE IF conn
              THEN [conn |-> FALSE, last |-> last, act |-> "stop"]
              ELSE [conn |-> conn, last |-> last, act |-> "none"]
    ELSE IF conn
         THEN [conn |-> FALSE, last |-> last, act |-> "stop"]
         ELSE [conn |-> conn, last |-> last, act |-> "none"]

\* check_connection without the _stop_server call of line 251
CheckConnection_NoStopNoNet(conn, last, ip, net) ==
    IF ip # None
    THEN IF net
         THEN IF ~conn \/ ip # last
              THEN [conn |-> TRUE, last |-> ip, act |-> "check"]
              ELSE [conn |-> conn, last |-> last, act |-> "check"]
         ELSE IF conn
              THEN [conn |-> FALSE, last |-> last, act |-> "none"]
              ELSE [conn |-> conn, last |-> last, act |-> "none"]
    ELSE IF conn
         THEN [conn |-> FALSE, last |-> None, act |-> "stop"]
         ELSE [conn |-> conn, last |-> last, act |-> "none"]

\* check_connection without the `if self.is_connected:` guard of line 253
CheckConnection_AlwaysStop(conn, last, ip, net) ==
    IF ip # None
    THEN IF net
         THEN IF ~conn \/ ip # last
              THEN [conn |-> TRUE, last |-> ip, act |-> "check"]
              ELSE [conn |-> conn, last |-> last, act |-> "check"]
         ELSE IF conn
              THEN [conn |-> FALSE, last |-> last, act |-> "stop"]
              ELSE [conn |-> conn, last |-> last, act |-> "none"]
    ELSE [conn |-> FALSE, last |-> None, act |-> "stop"]

\* check_connection with `if not self.is_connected:` at line 232, the
\* address comparison left out
CheckConnection_NoAddrChange(conn, last, ip, net) ==
    IF ip # None
    THEN IF net
         THEN IF ~conn
              THEN [conn |-> TRUE, last |-> ip, act |-> "check"]
              ELSE [conn |-> conn, last |-> last, act |-> "check"]
         ELSE IF conn
              THEN [conn |-> FALSE, last |-> last, act |-> "stop"]
              ELSE [conn |-> conn, last |-> last, act |-> "none"]
    ELSE IF conn
         THEN [conn |-> FALSE, last |-> None, act |-> "stop"]
         ELSE [conn |-> conn, last |-> last, act |-> "none"]

\* check_connection that does not leave Connected when the probe fails
\* (line 250 left out)
CheckConnection_StayConnected(conn, last, ip, net) ==
    IF ip # None
    THEN IF net
         THEN IF ~conn \/ ip # last
              THEN [conn |-> TRUE, last |-> ip, act |-> "check"]
              ELSE [conn |-> conn, last |-> last, act |-> "check"]
         ELSE IF conn
              THEN [conn |-> conn, last |-> last, act |-> "stop"]
              ELSE [conn |-> conn, last |-> last, act |-> "none"]
    ELSE IF conn
         THEN [conn |-> FALSE, last |-> None, act |-> "stop"]
         ELSE [conn |-> conn, last |-> last, act |-> "none"]

\* check_connection without `self.is_connected = False` at line 255
CheckConnection_NoAddrStaysConnected(conn, last, ip, net) ==
    IF ip # None
    THEN IF net
         THEN IF ~conn \/ ip # last
              THEN [conn |-> TRUE, last |-> ip, act |-> "check"]
              ELSE [conn |-> conn, last |-> last, act |-> "check"]
         ELSE IF conn
              THEN [conn |-> FALSE, last |-> last, act |-> "stop"]
              ELSE [conn |-> conn, last |-> last, act |-> "none"]
    ELSE IF conn
         THEN [conn |-> conn, last |-> None, act |-> "stop"]
         ELSE [conn |-> conn, last |-> last, act |-> "none"]

\* check_connection without the steady-state check of lines 242-246
CheckConnection_NoSelfHeal(conn, last, ip, net) ==
    IF ip # None
    THEN IF net
         THEN IF ~conn \/ ip # last
              THEN [conn |-> TRUE, last |-> ip, act |-> "check"]
              ELSE [conn |-> conn, last |-> last, act |-> "none"]
         ELSE IF conn
              THEN [conn |-> FALSE, last |-> last, act |-> "stop"]
              ELSE [conn |-> conn, last |-> last, act |-> "none"]
    ELSE IF conn
         THEN [conn |-> FALSE, last |-> None, act |-> "stop"]
         ELSE [conn |-> conn, last |-> last, act |-> "none"]

(***************************************************************************)
(* NetworkMonitor.check_connection, lines 227-257: the decision taken from *)
(* the detected address ip (None when get_interface_ip found none) and the *)
(* internet probe net.  The result is the new is_connected and last_ip and *)
(* the call that follows: "check" (_is_server_running, then _start_server  *)
(* when it is false), "stop" (_stop_server) or "none".                     *)
(***************************************************************************)
CheckConnection(conn, last, ip, net) ==
    IF ip # None
    THEN IF net
         THEN IF ~conn \/ ip # last
              THEN [conn |-> TRUE, last |-> ip, act |-> "check"]
              ELSE IF conn
                   THEN [conn |-> conn, last |-> last, act |-> "check"]
                   ELSE [conn |-> conn, last |-> last, act |-> "none"]
         ELSE IF conn
              THEN [conn |-> FALSE, last |-> last, act |-> "stop"]
              ELSE [conn |-> conn, last |-> last, act |-> "none"]
    ELSE IF conn
         THEN [conn |-> FALSE, last |-> None, act |-> "stop"]
         ELSE [conn |-> conn, last |-> last, act |-> "none"]

\* where check_connection goes after its decision
PcOfAct(act) ==
    CASE act = "check" -> "check_running"
      [] act = "stop"  -> "stop_pkill"
      [] OTHER         -> "sleep"

NoObs == [ip |-> None, net |-> FALSE]

\* Python's True and False as the history variables record them
Bool(b) == IF b THEN "true" ELSE "false"

(***************************************************************************)
(* Address strings.  _is_valid_ip looks at its argument twice: through     *)
(* socket.inet_aton, which reads numbers, and through str.startswith,      *)
(* which reads text.  A string is the list of its dot-separated parts      *)
(* followed by a tail.                                                     *)
(***************************************************************************)
\* the parts: decimal numbers, an octal and an out-of-range number, and
\* text that is no number
Tokens == {"127", "169", "254", "10", "0177", "256", "x"}

\* the parts written as a decimal number without leading zero
DecimalTokens == {"127", "169", "254", "10", "256"}

\* what follows the last part: nothing, white space and further text, or a
\* NUL character
Tails == {"", "ws", "nul"}

\* the value inet_aton reads a part as (strtoul with base 0: a leading 0
\* means octal), -1 when the part is not a number
TokVal(t) ==
    CASE t = "127"  -> 127
      [] t = "169"  -> 169
      [] t = "254"  -> 254
      [] t = "10"   -> 10
      [] t = "0177" -> 127
      [] t = "256"  -> 256
      [] OTHER      -> -1

Strings ==
    { [parts |-> q, tail |-> t] :
        q \in UNION { [1..n -> Tokens] : n \in 1..MaxParts }, t \in Tails }

\* the largest value of the last of n parts: 8 bits of a quad; with fewer
\* parts the last one fills the remaining bytes (16 bits or more)
LastPartMax(n) == IF n = 4 THEN 255 ELSE 65535

\* line 127: socket.inet_aton(ip).  The argument may not hold a NUL
\* (ValueError); the C function accepts one to four numeric parts, the
\* leading ones below 256, followed by nothing or by white space.
InetAton(s) ==
    IF s.tail = "nul" THEN "ValueError"
    ELSE LET n == Len(s.parts) IN
         IF /\ n \in 1..4
            /\ \A i \in 1..n :
                 /\ TokVal(s.parts[i]) >= 0
                 /\ TokVal(s.parts[i]) <= (IF i = n THEN LastPartMax(n) ELSE 255)
         THEN "ok" ELSE "OSError"

\* line 128: ip.startswith('127.') and ip.startswith('169.254.')
StartsWith127(s) == Len(s.parts) >= 2 /\ s.parts[1] = "127"

StartsWith169254(s) ==
    Len(s.parts) >= 3 /\ s.parts[1] = "169" /\ s.parts[2] = "254"

\* lines 122-130: _is_valid_ip.  socket.error is OSError; a ValueError is
\* not caught.
IsValidIp(s) ==
    CASE InetAton(s) = "ValueError" -> "ValueError"
      [] InetAton(s) = "OSError"    -> "false"
      [] OTHER -> Bool(~StartsWith127(s) /\ ~StartsWith169254(s))

(***************************************************************************)
(* get_interface_ip, lines 49-105.  The environment of one call: the       *)
(* address the UDP socket reports, whether `ip addr show <interface>` can  *)
(* be run and what it prints, and the state of netifaces.                  *)
(***************************************************************************)
Quad(a, b) == [parts |-> << a, b, "10", "10" >>, tail |-> ""]

\* addresses as the kernel formats them: a global one, a link-local one
\* and a loopback one
Glob == Quad("10", "10")
LinkLocal == Quad("169", "254")
Loop == Quad("127", "10")
\* no address: the socket call raised, or the result is None
NoAddr == [parts |-> << >>, tail |-> ""]

KernelAddrs == {Glob, LinkLocal, Loop}

\* an `inet` line of the command's output: the address and its scope
Lines == { [addr |-> a, scope |-> sc] : a \in KernelAddrs, sc \in {"global", "link"} }

Outputs == UNION { [1..n -> Lines] : n \in 0..MaxLines }

DetectEnvs ==
    [ sock  : {NoAddr, Glob, LinkLocal},
      ipcmd : {"ok", "fail", "missing"},
      out   : Outputs,
      nif   : {"ok", "import_error", "error"} ]

Found(a) == [kind |-> "addr", addr |-> a]
NoneFound == [kind |-> "none", addr |-> NoAddr]
Raised == [kind |-> "raise", addr |-> NoAddr]

\* lines 107-120: `ip in result.stdout`; the bare except turns a command
\* that fails or cannot be run into False
VerifyIpOnInterface(env, ip) ==
    /\ env.ipcmd = "ok"
    /\ \E i \in 1..Len(env.out) : env.out[i].addr = ip

\* lines 54-65: the socket's own address, returned when it is on the
\* interface; any exception is caught at line 64
Method1(env) ==
    IF env.sock # NoAddr /\ VerifyIpOnInterface(env, env.sock)
    THEN Found(env.sock) ELSE NoneFound

\* the first candidate that _is_valid_ip accepts (lines 82-83, 97-98);
\* an exception of _is_valid_ip leaves the loop
RECURSIVE FirstValid(_)
FirstValid(cands) ==
    IF cands = << >> THEN NoneFound
    ELSE LET v == IsValidIp(Head(cands)) IN
         IF v = "true" THEN Found(Head(cands))
         ELSE IF v = "false" THEN FirstValid(Tail(cands))
         ELSE Raised

\* the addresses of the lines that satisfy the test, in order
RECURSIVE AddrsOf(_, _)
AddrsOf(out, globalOnly) ==
    IF out = << >> THEN << >>
    ELSE IF globalOnly /\ Head(out).scope # "global"
         THEN AddrsOf(Tail(out), globalOnly)
         ELSE << Head(out).addr >> \o AddrsOf(Tail(out), globalOnly)

\* lines 67-86: the `scope global` lines of the command's output.  Only
\* CalledProcessError (the command ran and failed) is caught; a command
\* that cannot be run raises OSError out of get_interface_ip.
Method2(env) ==
    CASE env.ipcmd = "missing" -> Raised
      [] env.ipcmd = "fail"    -> NoneFound
      [] OTHER                 -> FirstValid(AddrsOf(env.out, TRUE))

\* lines 88-103: every IPv4 address netifaces lists for the interface;
\* ImportError and any other exception are caught
Method3(env) ==
    IF env.nif # "ok" THEN NoneFound
    ELSE LET r == FirstValid(AddrsOf(env.out, FALSE)) IN
         IF r.kind = "raise" THEN NoneFound ELSE r

\* lines 49-105: the three methods in order.  tried is the set of methods
\* that were entered.
GetInterfaceIp(env) ==
    IF Method1(env).kind = "addr"
    THEN [ret |-> Method1(env), tried |-> {1}]
    ELSE IF Method2(env).kind # "none"
    THEN [ret |-> Method2(env), tried |-> {1, 2}]
    ELSE [ret |-> Method3(env), tried |-> {1, 2, 3}]

NoDetect ==
    [env |-> [sock |-> NoAddr, ipcmd |-> "ok", out |-> << >>, nif |-> "ok"],
     ret |-> [kind |-> "uncalled", addr |-> NoAddr], tried |-> {}]

NoValid == [ip |-> NoAddr, ret |-> "uncalled"]

detFrame == << is_connected, last_ip, server_process, running, pc, popen_ret,
               procs, poll_done, obs, pre, startCalls, stopCalls, launches,
               runSeen, startSeen, startRet, onlyNoAddr, sigVars, bcVars >>

\* neither function keeps state between calls: a behaviour makes one call
NoCallYet == detect_call = NoDetect /\ valid_call = NoValid

\* test_network.py line 20: a call of get_interface_ip
DetectCall ==
    /\ NoCallYet
    /\ \E env \in DetectEnvs :
        detect_call' = [env |-> env, ret |-> GetInterfaceIp(env).ret,
                        tried |-> GetInterfaceIp(env).tried]
    /\ UNCHANGED << valid_call, detFrame >>

\* test_network.py line 34: a call of _is_valid_ip
ValidCall ==
    /\ NoCallYet
    /\ \E s \in Strings :
        valid_call' = [ip |-> s, ret |-> IsValidIp(s)]
    /\ UNCHANGED << detect_call, detFrame >>

NextDetect ==
    \/ DetectCall
    \/ ValidCall

(***************************************************************************)
(* Initial state: NetworkMonitor.__init__ (lines 29-36).  The process      *)
(* table may already hold a broadcaster that something else started.       *)
(***************************************************************************)
InitSup ==
    /\ is_connected = FALSE
    /\ last_ip = None
    /\ server_process = None
    /\ running = TRUE
    /\ pc = "sleep"
    /\ popen_ret = None
    /\ procs \in { [p \in Pids |-> FreeProc],
                   [p \in Pids |-> IF p = 1 THEN NewProc(TRUE, 1) ELSE FreeProc] }
    /\ poll_done = FALSE
    /\ obs = NoObs
    /\ pre = [conn |-> FALSE, ip |-> None]
    /\ startCalls = 0
    /\ stopCalls = 0
    /\ launches = 0
    /\ runSeen = "none"
    /\ startSeen = "none"
    /\ startRet = "none"
    /\ onlyNoAddr = TRUE
    /\ in_handler = FALSE
    /\ saved_pc = "none"
    /\ swallowed = FALSE
    /\ cleanup = FALSE
    /\ sigStop = FALSE
    /\ detect_call = NoDetect
    /\ valid_call = NoValid

\* run() is between two calls of check_connection: in time.sleep after a
\* call that returned (line 270) or after one that raised (lines 275-277)
AtLoop == pc \in {"sleep", "loop_error"}

\* _start_server or _stop_server returns.  Called from check_connection,
\* the poll step returns to run(), which sleeps check_interval; called from
\* _signal_handler (line 46) the next line is sys.exit(0); called at the
\* end of run() (line 280), run() and then main() return.
Return ==
    IF in_handler THEN pc' = "sys_exit" /\ poll_done' = FALSE
    ELSE IF cleanup THEN pc' = "exited" /\ poll_done' = FALSE
    ELSE pc' = "sleep" /\ poll_done' = TRUE

(***************************************************************************)
(* run(), lines 267-270: one iteration calls check_connection, which reads *)
(* the detector (get_interface_ip, _test_internet_connectivity) and takes  *)
(* its decision.  The probe is evaluated only when an address was found.   *)
(***************************************************************************)
Poll ==
    /\ AtLoop
    /\ running \/ swallowed
    /\ swallowed' = FALSE
    /\ \E ip \in Addrs \cup {None}, net \in BOOLEAN :
        /\ (ip = None => ~net)
        /\ LET r == CheckConnection(is_connected, last_ip, ip, net) IN
           /\ is_connected' = r.conn
           /\ last_ip' = r.last
           /\ pc' = PcOfAct(r.act)
           /\ poll_done' = (PcOfAct(r.act) = "sleep")
           /\ stopCalls' = IF r.act = "stop" THEN 1 ELSE 0
        /\ obs' = [ip |-> ip, net |-> net]
        /\ onlyNoAddr' = (onlyNoAddr /\ ip = None)
    /\ pre' = [conn |-> is_connected, ip |-> last_ip]
    /\ startCalls' = 0
    /\ launches' = 0
    /\ runSeen' = "none"
    /\ startSeen' = "none"
    /\ startRet' = "none"
    /\ UNCHANGED << server_process, running, popen_ret, procs >>
    /\ UNCHANGED << sigFrame, detVars, bcVars >>

\* lines 67-86 and 275-277: get_interface_ip lets an exception other than
\* CalledProcessError out of its second method (subprocess.run cannot run
\* `ip`); check_connection has no handler, and run() logs the error and
\* sleeps.  Nothing was observed and nothing has changed.
PollRaise ==
    /\ AtLoop
    /\ running \/ swallowed
    /\ swallowed' = FALSE
    /\ pc' = "loop_error"
    /\ poll_done' = FALSE
    /\ onlyNoAddr' = FALSE
    /\ UNCHANGED << is_connected, last_ip, server_process, running, popen_ret, procs,
                    obs, pre, startCalls, stopCalls, launches, runSeen, startSeen,
                    startRet >>
    /\ UNCHANGED << sigFrame, detVars, bcVars >>

\* the call of _start_server without the test of lines 238 / 244
AfterRunningCheck_Always(r) == "start_chk"

\* lines 238-240 and 244-246: start the server unless one is running
AfterRunningCheck(r) == IF r THEN "sleep" ELSE "start_chk"

CheckRunning ==
    /\ pc = "check_running"
    /\ \E pgrepOk \in BOOLEAN :
        LET r == IsServerRunning(procs, pgrepOk) IN
        /\ swallowed => ~pgrepOk
        /\ runSeen' = Bool(r)
        /\ pc' = AfterRunningCheck(r)
        /\ poll_done' = (AfterRunningCheck(r) = "sleep")
        /\ startCalls' = IF AfterRunningCheck(r) = "start_chk" THEN startCalls + 1
                                                                ELSE startCalls
    /\ UNCHANGED << is_connected, last_ip, server_process, running, popen_ret, procs,
                    obs, pre, stopCalls, launches, startSeen, startRet, onlyNoAddr >>
    /\ swallowed' = FALSE
    /\ UNCHANGED << sigFrame, detVars, bcVars >>

(***************************************************************************)
(* _start_server, lines 146-179.                                           *)
(***************************************************************************)
\* _start_server without the early return of lines 151-153
AfterStartCheck_Always(r) == "start_launch"

\* lines 151-153: a running server makes _start_server return True at once
AfterStartCheck(r) == IF r THEN "sleep" ELSE "start_launch"

StartCheck ==
    /\ pc = "start_chk"
    /\ \E pgrepOk \in BOOLEAN :
        LET r == IsServerRunning(procs, pgrepOk) IN
        /\ swallowed => ~pgrepOk
        /\ startSeen' = Bool(r)
        /\ pc' = AfterStartCheck(r)
        /\ poll_done' = (AfterStartCheck(r) = "sleep")
        /\ startRet' = IF AfterStartCheck(r) = "sleep" THEN "true" ELSE startRet
    /\ UNCHANGED << is_connected, last_ip, server_process, running, popen_ret, procs,
                    obs, pre, startCalls, stopCalls, launches, runSeen, onlyNoAddr >>
    /\ swallowed' = FALSE
    /\ UNCHANGED << sigFrame, detVars, bcVars >>

\* lines 156-164: os.chmod and subprocess.Popen; either may raise, and then
\* the except clause at 177 returns False.  Popen forks the script as the
\* leader of a new process group.
StartLaunch ==
    /\ pc = "start_launch"
    /\ \/ /\ FreePids(procs) # {}
          /\ LET p == NewPid(procs) IN
             /\ procs' = [procs EXCEPT ![p] = NewProc(FALSE, p)]
             /\ popen_ret' = p
          /\ launches' = launches + 1
          /\ pc' = "start_assign"
          /\ UNCHANGED << poll_done, startRet >>
       \/ /\ startRet' = "false"
          /\ Return
          /\ UNCHANGED << procs, popen_ret, launches >>
    /\ UNCHANGED << is_connected, last_ip, server_process, running,
                    obs, pre, startCalls, stopCalls, runSeen, startSeen, onlyNoAddr >>
    /\ UNCHANGED << sigVars, detVars, bcVars >>

\* line 159: the assignment self.server_process = <Popen object>
StartAssign ==
    /\ pc = "start_assign"
    /\ server_process' = popen_ret
    /\ popen_ret' = None
    /\ pc' = "start_settle"
    /\ UNCHANGED << is_connected, last_ip, running, procs, poll_done,
                    obs, pre, startCalls, stopCalls, launches, runSeen, startSeen,
                    startRet, onlyNoAddr >>
    /\ UNCHANGED << sigVars, detVars, bcVars >>

\* lines 167-175: after time.sleep(2), report whether a server is running
StartVerify ==
    /\ pc = "start_settle"
    /\ \E pgrepOk \in BOOLEAN :
        /\ swallowed => ~pgrepOk
        /\ startRet' = Bool(IsServerRunning(procs, pgrepOk))
    /\ Return
    /\ UNCHANGED << is_connected, last_ip, server_process, running, popen_ret, procs,
                    obs, pre, startCalls, stopCalls, launches, runSeen, startSeen,
                    onlyNoAddr >>
    /\ swallowed' = FALSE
    /\ UNCHANGED << sigFrame, detVars, bcVars >>

(***************************************************************************)
(* _stop_server, lines 181-208.                                            *)
(***************************************************************************)
\* lines 187-190: the processes `pkill -f stats_broadcaster.py` signals
PkillTargets(ps) == Matching(ps)

\* _stop_server without the try / except Exception of lines 185 and 207:
\* the error reaches run(), whose except clause (line 275) logs it
AfterPkillRaise_Uncaught == "loop_error"

\* lines 207-208: an exception raised by subprocess.run is caught and
\* logged, and _stop_server returns
AfterPkillRaise == "return"

\* lines 187-193: pkill -f sends SIGTERM to every matching process.  When
\* subprocess.run raises, the except clause at 207 ends the call.
StopPkill ==
    /\ pc = "stop_pkill"
    /\ \/ /\ procs' = Termed(procs, PkillTargets(procs))
          /\ IF server_process # None
             THEN pc' = "stop_killpg" /\ UNCHANGED poll_done
             ELSE Return
       \/ /\ IF AfterPkillRaise = "return"
             THEN Return
             ELSE pc' = AfterPkillRaise /\ UNCHANGED poll_done
          /\ UNCHANGED procs
    /\ UNCHANGED << is_connected, last_ip, server_process, running, popen_ret,
                    obs, pre, startCalls, stopCalls, launches, runSeen, startSeen,
                    startRet, onlyNoAddr >>
    /\ UNCHANGED << sigVars, detVars, bcVars >>

\* line 196: os.killpg(os.getpgid(pid), SIGTERM).  It can raise only for a
\* process that is gone; `except: pass` and the finally clause clear the handle.
StopKillpg ==
    /\ pc = "stop_killpg"
    /\ \/ /\ ~swallowed
          /\ procs' = Termed(procs, Group(procs, server_process))
          /\ pc' = "stop_wait"
          /\ UNCHANGED << server_process, poll_done >>
       \/ /\ IF swallowed THEN TRUE ELSE ~Alive(procs, server_process)
          /\ server_process' = None
          /\ Return
          /\ UNCHANGED procs
    /\ UNCHANGED << is_connected, last_ip, running, popen_ret,
                    obs, pre, startCalls, stopCalls, launches, runSeen, startSeen,
                    startRet, onlyNoAddr >>
    /\ swallowed' = FALSE
    /\ UNCHANGED << sigFrame, detVars, bcVars >>

\* lines 197-199: wait(timeout=5) returns when the launched process h has
\* exited; when it has not (TimeoutExpired) its group gets SIGKILL
AfterWait(ps, h) == IF Alive(ps, h) THEN Killed(ps, Group(ps, h)) ELSE ps

\* lines 197-203: the wait and its outcome.  The finally clause clears
\* the handle.
StopWait ==
    /\ pc = "stop_wait"
    /\ IF swallowed
       THEN UNCHANGED procs
       ELSE procs' = AfterWait(procs, server_process)
    /\ server_process' = None
    /\ Return
    /\ UNCHANGED << is_connected, last_ip, running, popen_ret,
                    obs, pre, startCalls, stopCalls, launches, runSeen, startSeen,
                    startRet, onlyNoAddr >>
    /\ swallowed' = FALSE
    /\ UNCHANGED << sigFrame, detVars, bcVars >>

(***************************************************************************)
(* The environment: processes come and go on their own.                    *)
(***************************************************************************)
envFrame == << is_connected, last_ip, server_process, running, pc, popen_ret,
               obs, pre, startCalls, stopCalls, launches, runSeen, startSeen,
               startRet, onlyNoAddr, sigVars, detVars, bcVars >>

\* something other than the supervisor starts a broadcaster
\* (_is_server_running matches any process, whoever started it)
ExtStart ==
    /\ FreePids(procs) # {}
    /\ LET p == NewPid(procs) IN procs' = [procs EXCEPT ![p] = NewProc(TRUE, p)]
    /\ poll_done' = FALSE
    /\ UNCHANGED envFrame

\* a process exits: on a signal it received, or unexpectedly (line 245)
ProcExit ==
    /\ \E p \in Pids :
        /\ Alive(procs, p)
        /\ procs' = [procs EXCEPT ![p] = DeadProc]
    /\ poll_done' = FALSE
    /\ UNCHANGED envFrame

\* the launched script starts the broadcaster as a child in its own group
ScriptSpawn ==
    /\ FreePids(procs) # {}
    /\ \E p \in Pids :
        /\ Alive(procs, p) /\ ~procs[p].match
        /\ LET q == NewPid(procs) IN
           procs' = [procs EXCEPT ![q] = NewProc(TRUE, procs[p].pgid)]
    /\ poll_done' = FALSE
    /\ UNCHANGED envFrame

\* the launched script replaces itself by the broadcaster (exec)
ScriptExec ==
    /\ \E p \in Pids :
        /\ Alive(procs, p) /\ ~procs[p].match
        /\ procs' = [procs EXCEPT ![p].match = TRUE]
    /\ poll_done' = FALSE
    /\ UNCHANGED envFrame

Next ==
    \/ Poll
    \/ PollRaise
    \/ CheckRunning
    \/ StartCheck
    \/ StartLaunch
    \/ StartAssign
    \/ StartVerify
    \/ StopPkill
    \/ StopKillpg
    \/ StopWait
    \/ ExtStart
    \/ ProcExit
    \/ ScriptSpawn
    \/ ScriptExec

(***************************************************************************)
(* Shutdown.  SIGINT and SIGTERM are bound to _signal_handler (lines 39,   *)
(* 40).  Python runs the handler in the main thread, on top of whatever    *)
(* the supervisor was executing; sys.exit raises SystemExit, which leaves  *)
(* the handler and is raised again at the interrupted instruction.  It is  *)
(* a BaseException: `except Exception` (lines 177, 207, 275, 306) lets it  *)
(* through, and a bare `except:` (lines 118, 143, 200, 220) catches it.    *)
(* A signal that arrives while the handler runs is not modelled.           *)
(***************************************************************************)
\* the instruction the signal interrupts.  Between two poll steps the
\* supervisor is in time.sleep or, when a further call of check_connection
\* is to come, in the detector that the call begins with.
Interrupted ==
    IF AtLoop THEN (IF running \/ swallowed THEN "poll" ELSE "sleep") ELSE pc

\* the positions of which a part lies inside a bare `except:` :
\* _verify_ip_on_interface and _test_internet_connectivity (118, 220),
\* the pgrep of _is_server_running (143), killpg and wait (200)
BareExcept ==
    {"poll", "check_running", "start_chk", "start_settle", "stop_killpg",
     "stop_wait"}

\* a handler that only clears self.running and exits
HandlerEntry_NoStop == "sys_exit"

\* line 46: the handler calls _stop_server
HandlerEntry == "stop_pkill"

\* lines 42-46: the signal arrives, the handler clears self.running and
\* calls _stop_server
Signal ==
    /\ ~in_handler
    /\ pc # "exited"
    /\ in_handler' = TRUE
    /\ saved_pc' = Interrupted
    /\ running' = FALSE
    /\ pc' = HandlerEntry
    /\ sigStop' = (HandlerEntry = "stop_pkill")
    /\ swallowed' = FALSE
    /\ poll_done' = FALSE
    /\ UNCHANGED << is_connected, last_ip, server_process, popen_ret, procs,
                    obs, pre, startCalls, stopCalls, launches, runSeen, startSeen,
                    startRet, onlyNoAddr, cleanup >>
    /\ UNCHANGED << detVars, bcVars >>

\* line 47: sys.exit(0).  SystemExit either ends the process (on its way
\* out of _stop_server it passes the finally clause of line 202) or is
\* caught by the bare except the interrupted instruction was in, and the
\* interrupted call goes on from its except clause.
SysExit ==
    /\ pc = "sys_exit"
    /\ in_handler
    /\ in_handler' = FALSE
    /\ \/ /\ pc' = "exited"
          /\ server_process' = IF saved_pc \in {"stop_killpg", "stop_wait"}
                                THEN None ELSE server_process
          /\ UNCHANGED swallowed
       \/ /\ saved_pc \in BareExcept
          /\ pc' = IF saved_pc = "poll" THEN "sleep" ELSE saved_pc
          /\ swallowed' = TRUE
          /\ UNCHANGED server_process
    /\ saved_pc' = "none"
    /\ UNCHANGED << is_connected, last_ip, running, popen_ret, procs, poll_done,
                    obs, pre, startCalls, stopCalls, launches, runSeen, startSeen,
                    startRet, onlyNoAddr, cleanup, sigStop >>
    /\ UNCHANGED << detVars, bcVars >>

\* lines 267 and 280: self.running is false when run() tests it, the loop
\* ends and run() calls _stop_server
LoopEnd ==
    /\ AtLoop
    /\ ~running /\ ~swallowed
    /\ ~cleanup
    /\ cleanup' = TRUE
    /\ pc' = "stop_pkill"
    /\ sigStop' = TRUE
    /\ poll_done' = FALSE
    /\ UNCHANGED << is_connected, last_ip, server_process, running, popen_ret, procs,
                    obs, pre, startCalls, stopCalls, launches, runSeen, startSeen,
                    startRet, onlyNoAddr, in_handler, saved_pc, swallowed >>
    /\ UNCHANGED << detVars, bcVars >>

NextSignal ==
    \/ Next
    \/ Signal
    \/ SysExit
    \/ LoopEnd

(***************************************************************************)
(* stats_broadcaster.py: the registry connected_clients, handle_client and *)
(* broadcast_stats.  The server runs on one asyncio event loop: a task     *)
(* runs until it awaits, so the steps below are the stretches of code      *)
(* between two awaits that can suspend.  handle_client suspends in         *)
(* `async for message in websocket`; broadcast_stats suspends in           *)
(* `await client.send(...)` and in `await asyncio.sleep(1)`.               *)
(***************************************************************************)
InitBroadcast ==
    /\ connected_clients = {}
    /\ ws = [c \in Clients |-> "new"]
    /\ bpc = "sleep"
    /\ cur = None
    /\ it_left = {}
    /\ it_size = 0
    /\ disconnected_clients = {}
    /\ tick_members = {}
    /\ delivered = {}
    /\ tick_result = "none"
    /\ tick_done = FALSE
    /\ failed = {}
    /\ unreg = [c \in Clients |-> 0]
    /\ collected = 0
    /\ serialized = 0
    /\ stats_json = None
    /\ got = [c \in Clients |-> None]
    /\ server = "serving"
    /\ broadcast_task = "running"
    /\ mpc = "gather"

\* the frame of a connection handler's step
handlerFrame == << bpc, cur, it_size, disconnected_clients, tick_members,
                   delivered, tick_result, failed, lifeVars, msgVars, supVars >>

(***************************************************************************)
(* The iterator of `for client in connected_clients` (line 421) walks the  *)
(* set's hash table.  set.add may rebuild the table, after which the       *)
(* iterator's position points into the new table: it can then yield any    *)
(* of the members again, or skip any.  set.discard only empties a slot.    *)
(* (A change of the set's size is detected by the next step, see Step.)    *)
(***************************************************************************)
IterAfterAdd(members) == SUBSET members

IterAfterDiscard(left, c) == left \ {c}

\* handle_client, line 397, and register_client, lines 383-387: a new
\* connection is registered at once
Connect ==
    /\ mpc # "exited" /\ server = "serving"
    /\ \E c \in Clients :
        /\ ws[c] = "new"
        /\ ws' = [ws EXCEPT ![c] = "open"]
        /\ connected_clients' = connected_clients \cup {c}
        /\ IF bpc = "sending"
           THEN it_left' \in IterAfterAdd(connected_clients \cup {c})
           ELSE UNCHANGED it_left
    /\ tick_done' = FALSE
    /\ UNCHANGED << unreg, handlerFrame >>

\* the connection ends: the peer closes, the keep-alive ping times out
\* (lines 456-458) or the transport fails
Close ==
    /\ mpc # "exited"
    /\ \E c \in Clients :
        /\ ws[c] = "open"
        /\ ws' = [ws EXCEPT ![c] = "closed"]
    /\ tick_done' = FALSE
    /\ UNCHANGED << connected_clients, it_left, unreg, handlerFrame >>

\* a handler without the finally clause of lines 407-408
UnregisterClient_Skipped(members, c) == members

\* unregister_client, line 391: connected_clients.discard(websocket)
UnregisterClient(members, c) == members \ {c}

\* handle_client, lines 400-408: the receive loop ends (normally or with
\* ConnectionClosed) and the finally clause unregisters the connection
\* (unregister_client, lines 389-393)
HandlerExit ==
    /\ mpc # "exited"
    /\ \E c \in Clients :
        /\ ws[c] = "closed"
        /\ ws' = [ws EXCEPT ![c] = "done"]
        /\ connected_clients' = UnregisterClient(connected_clients, c)
        /\ it_left' = IterAfterDiscard(it_left, c)
        /\ unreg' = [unreg EXCEPT ![c] = @ + 1]
    /\ tick_done' = FALSE
    /\ UNCHANGED handlerFrame

(***************************************************************************)
(* broadcast_stats, lines 410-442.                                         *)
(***************************************************************************)
\* broadcast_stats without the try / except Exception of lines 413 and 440:
\* an error ends the coroutine
OnLoopError_Stops == "stopped"

\* lines 440-442: an exception raised in a tick is logged, and the loop
\* sleeps and goes on
OnLoopError == "sleep"

\* line 416: every snapshot carries its own timestamp, so the snapshot of a
\* tick differs from the one before; two values tell them apart
NextSnapshot(m) == IF m = 1 THEN 2 ELSE 1

\* a loop that collects and serializes again for every member
MessageSent_Fresh(m) == NextSnapshot(m)

\* line 423: every send of the tick passes the same object stats_json
MessageSent(m) == m

\* lines 412-421: a tick begins.  With an empty registry it only sleeps;
\* otherwise it collects the snapshot (get_stats catches its own errors and
\* returns a dictionary either way, lines 376-381) and serializes it; when
\* json.dumps raises, the tick is over.  If not it makes the iterator,
\* takes the first member and suspends in its send.
TickStart ==
    /\ mpc # "exited" /\ broadcast_task = "running"
    /\ bpc = "sleep"
    /\ got' = [c \in Clients |-> None]
    /\ IF connected_clients = {}
       THEN /\ tick_result' = "idle"
            /\ tick_done' = TRUE
            /\ tick_members' = {}
            /\ delivered' = {}
            /\ collected' = 0
            /\ serialized' = 0
            /\ UNCHANGED << bpc, cur, it_left, it_size, disconnected_clients,
                            stats_json >>
       ELSE /\ collected' = 1
            /\ serialized' = 1
            /\ \/ /\ tick_members' = connected_clients
                  /\ stats_json' = NextSnapshot(stats_json)
                  /\ delivered' = {}
                  /\ disconnected_clients' = {}
                  /\ it_size' = Cardinality(connected_clients)
                  /\ \E c \in connected_clients :
                      /\ cur' = c
                      /\ it_left' = connected_clients \ {c}
                  /\ bpc' = "sending"
                  /\ tick_result' = "none"
                  /\ tick_done' = FALSE
               \/ /\ tick_members' = connected_clients
                  /\ delivered' = {}
                  /\ disconnected_clients' = {}
                  /\ tick_result' = "skipped"
                  /\ tick_done' = TRUE
                  /\ bpc' = OnLoopError
                  /\ UNCHANGED << cur, it_left, it_size, stats_json >>
    /\ UNCHANGED << connected_clients, ws, failed, unreg, lifeVars, supVars >>

\* what a send can do: return, raise ConnectionClosed (the connection has
\* ended), or raise another exception
SendResults(c) ==
    {r \in {"ok", "closed", "error"} :
        /\ (r = "ok") => ws[c] = "open"
        /\ (r = "closed") => ws[c] \in {"closed", "done"}}

\* what the iterator does when asked for the next member (line 421):
\* "changed" is RuntimeError('Set changed size during iteration'), which
\* the except clause at 440 catches; "end" ends the loop
Step(members, left, size) ==
    IF Cardinality(members) # size THEN "changed"
    ELSE IF left = {} THEN "end"
    ELSE "next"

\* lines 389-393 as the sweep calls them: every member of cs has had a
\* call of unregister_client
Unregistered(u, cs) == [c \in Clients |-> IF c \in cs THEN u[c] + 1 ELSE u[c]]

\* lines 422-442: the send of the current member ends, and the tick goes on
\* to the next member, to the sweep of lines 431-432, or to the except
\* clause at 440.  The sweep calls unregister_client for the members of
\* disconnected_clients one after the other; when a call raises after its
\* discard (lines 392-393 read websocket.remote_address), the members not
\* yet swept stay registered and the except clause at 440 ends the tick.
SendDone ==
    /\ mpc # "exited" /\ broadcast_task = "running"
    /\ bpc = "sending"
    /\ \E r \in SendResults(cur) :
        LET dc == IF r = "ok" THEN disconnected_clients
                              ELSE disconnected_clients \cup {cur}
            st == Step(connected_clients, it_left, it_size)
        IN
        /\ delivered' = IF r = "ok" THEN delivered \cup {cur} ELSE delivered
        /\ got' = IF r = "ok" THEN [got EXCEPT ![cur] = MessageSent(stats_json)]
                              ELSE got
        /\ failed' = IF r = "ok" THEN failed ELSE failed \cup {cur}
        /\ disconnected_clients' = dc
        /\ \/ /\ st = "next"
              /\ \E c \in it_left :
                  /\ cur' = c
                  /\ it_left' = it_left \ {c}
              /\ UNCHANGED << bpc, connected_clients, tick_result, tick_done, unreg >>
           \/ /\ st = "end"
              /\ connected_clients' = connected_clients \ dc
              /\ unreg' = Unregistered(unreg, dc)
              /\ tick_result' = "swept"
              /\ tick_done' = TRUE
              /\ bpc' = "sleep"
              /\ UNCHANGED << cur, it_left >>
           \/ /\ st = "end"
              /\ \E swept \in SUBSET dc :
                  /\ swept # {}
                  /\ connected_clients' = connected_clients \ swept
                  /\ unreg' = Unregistered(unreg, swept)
              /\ tick_result' = "sweep_error"
              /\ tick_done' = TRUE
              /\ bpc' = OnLoopError
              /\ UNCHANGED << cur, it_left >>
           \/ /\ st = "changed"
              /\ tick_result' = "aborted"
              /\ tick_done' = TRUE
              /\ bpc' = OnLoopError
              /\ UNCHANGED << connected_clients, cur, it_left, unreg >>
    /\ UNCHANGED << ws, it_size, tick_members, lifeVars, collected, serialized,
                    stats_json, supVars >>

NextBroadcast ==
    \/ Connect
    \/ Close
    \/ HandlerExit
    \/ TickStart
    \/ SendDone

(***************************************************************************)
(* The end of the server.  stats_broadcaster.py installs no signal         *)
(* handler.  SIGTERM therefore has its default disposition and ends the    *)
(* process at once.  SIGINT becomes KeyboardInterrupt: raised inside the   *)
(* try of main it reaches the except clause of line 472; raised anywhere   *)
(* else it leaves the event loop, and asyncio.run cancels the tasks that   *)
(* remain before the except clause of line 491 runs.  Where the interrupt  *)
(* is raised depends on what the interpreter executes when the signal      *)
(* arrives.                                                                *)
(***************************************************************************)
shutdownFrame == << connected_clients, bpc, cur, it_left, it_size,
                    disconnected_clients, tick_members, delivered, tick_result,
                    tick_done, failed, unreg, msgVars, supVars >>

\* SIGTERM (what pkill and killpg send, network_monitor.py:188, 196):
\* the process ends without running any of its code
Sigterm ==
    /\ mpc # "exited"
    /\ mpc' = "exited"
    /\ UNCHANGED << ws, server, broadcast_task, shutdownFrame >>

\* KeyboardInterrupt outside main's try: asyncio.run cancels the main task
\* and the broadcast task; server.close() is not called (lines 490-499)
Interrupt ==
    /\ mpc = "gather"
    /\ broadcast_task' = "cancelled"
    /\ mpc' = "exited"
    /\ UNCHANGED << ws, server, shutdownFrame >>

\* lines 472-474: KeyboardInterrupt in main's try.  server.close() stops
\* accepting and starts closing the open connections.
ShutdownClose ==
    /\ mpc = "gather"
    /\ server' = "closing"
    /\ ws' = [c \in Clients |-> IF ws[c] = "open" THEN "closed" ELSE ws[c]]
    /\ mpc' = "wait_closed"
    /\ UNCHANGED << broadcast_task, shutdownFrame >>

\* lines 475-486: wait_closed returns when every handler has ended; the
\* listener is released, the broadcast task is cancelled and main returns
ShutdownFinish ==
    /\ mpc = "wait_closed"
    /\ \A c \in Clients : ws[c] \in {"new", "done"}
    /\ server' = "closed"
    /\ broadcast_task' = "cancelled"
    /\ mpc' = "exited"
    /\ UNCHANGED << ws, shutdownFrame >>

NextShutdown ==
    \/ NextBroadcast
    \/ Sigterm
    \/ Interrupt
    \/ ShutdownClose
    \/ ShutdownFinish

Init == InitSup /\ InitBroadcast

Spec == Init /\ [][Next]_vars

SpecBroadcast == Init /\ [][NextBroadcast]_vars

SpecSignal == Init /\ [][NextSignal]_vars

SpecDetect == Init /\ [][NextDetect]_vars

SpecShutdown == Init /\ [][NextShutdown]_vars

(***************************************************************************)
(* Properties of the broadcast server, checked under SpecBroadcast.        *)
(***************************************************************************)
\* no tick is in progress and every ended connection's handler has run
Quiescent == bpc = "sleep" /\ \A c \in Clients : ws[c] # "closed"

\* C2 (as stated): after any sequence of connects, disconnects and ticks the
\* registry holds exactly the connections that connected and have not
\* since disconnected or failed a delivery.
C2_RegistryExact ==
    Quiescent =>
        connected_clients = {c \in Clients : ws[c] = "open" /\ c \notin failed}

\* C3 (as stated): in a tick over two or more registered connections in
\* which a send failed, every other connection that was registered when
\* the tick began (and is still open) has received the tick's message and
\* stays registered, and the failing connection is removed.
C3_FailureIsolated ==
    (/\ tick_done
     /\ tick_result \in {"swept", "aborted"}
     /\ Cardinality(tick_members) >= 2
     /\ disconnected_clients # {}) =>
        /\ \A c \in tick_members \ disconnected_clients :
              ws[c] = "open" => (c \in delivered /\ c \in connected_clients)
        /\ connected_clients \cap disconnected_clients = {}

(***************************************************************************)
(* Properties of the connectivity supervisor, checked under Spec.          *)
(***************************************************************************)
\* what the poll step observed
ObsNoAddr == obs.ip = None
ObsNoNet == obs.ip # None /\ ~obs.net
ObsOk == obs.ip # None /\ obs.net

\* C1 (as stated): after every completed poll step that observed no address,
\* or an address without internet, no process matching the broadcaster
\* signature is running; after every completed poll step that observed an
\* address with internet and whose launch succeeded, one is running.
C1_RunningExactlyWhenConnected ==
    poll_done =>
        /\ (ObsNoAddr \/ ObsNoNet) => Matching(procs) = {}
        /\ (ObsOk /\ startRet = "true") => Matching(procs) # {}

\* C1 (amended): after every completed poll step that observed no address,
\* or an address without internet, the supervisor is Disconnected, has
\* started nothing and has called _stop_server once if it was Connected
\* before the step and not at all otherwise; after every completed poll step
\* that observed an address with internet and in which _is_server_running
\* held or the launch succeeded, the supervisor is Connected and a process
\* matching the broadcaster signature is running.
C1_DrivenByTransitions ==
    poll_done =>
        /\ (ObsNoAddr \/ ObsNoNet) =>
              /\ ~is_connected
              /\ startCalls = 0 /\ launches = 0
              /\ stopCalls = (IF pre.conn THEN 1 ELSE 0)
        /\ (ObsOk /\ (startRet = "true" \/ runSeen = "true")) =>
              /\ is_connected
              /\ stopCalls = 0
              /\ Matching(procs) # {}

\* C1 witness: a poll step has launched the broadcaster and found it running
C1_Witness ==
    poll_done /\ ObsOk /\ launches = 1 /\ startRet = "true" /\ Matching(procs) # {}

\* C4 (as stated): Disconnected, and the poll step observes address X with
\* internet: Connected, X recorded, _start_server called exactly once, no
\* _stop_server.
C4_ConnectStartsOnce ==
    (poll_done /\ ~pre.conn /\ ObsOk) =>
        /\ is_connected /\ last_ip = obs.ip
        /\ startCalls = 1 /\ stopCalls = 0

\* C4 (amended): Disconnected, and the poll step observes address X with
\* internet: Connected, X recorded, no _stop_server, and _start_server is
\* called exactly once when _is_server_running (line 238) is false and not
\* at all when a broadcaster is already running.
C4_ConnectStartsUnlessRunning ==
    (poll_done /\ ~pre.conn /\ ObsOk) =>
        /\ is_connected /\ last_ip = obs.ip
        /\ stopCalls = 0
        /\ runSeen # "none"
        /\ startCalls = (IF runSeen = "false" THEN 1 ELSE 0)

C4_Witness ==
    poll_done /\ ~pre.conn /\ ObsOk /\ runSeen = "false" /\ startCalls = 1
        /\ is_connected /\ last_ip = obs.ip

\* C5: Connected, and the poll step observes no address: Disconnected, the
\* last address cleared, _stop_server called exactly once, no _start_server.
C5_StopOnNoAddress ==
    (poll_done /\ pre.conn /\ ObsNoAddr) =>
        /\ ~is_connected /\ last_ip = None
        /\ stopCalls = 1 /\ startCalls = 0 /\ launches = 0

C5_Witness ==
    poll_done /\ pre.conn /\ pre.ip # None /\ ObsNoAddr /\ stopCalls = 1

\* C6: the poll step observes an address without internet: when Connected,
\* the state becomes Disconnected and _stop_server is called exactly once;
\* when Disconnected, neither _start_server nor _stop_server is called.
C6_StopOnNoInternet ==
    (poll_done /\ ObsNoNet) =>
        /\ ~is_connected
        /\ startCalls = 0 /\ launches = 0
        /\ stopCalls = (IF pre.conn THEN 1 ELSE 0)

C6_Witness ==
    poll_done /\ ObsNoNet /\ pre.conn /\ stopCalls = 1 /\ ~is_connected

\* the steady state: Connected with last address X, and X observed again
\* with internet
Steady == poll_done /\ pre.conn /\ ObsOk /\ obs.ip = pre.ip

\* C7 (as stated): in the steady state the poll step calls neither
\* _start_server nor _stop_server and leaves is_connected and last_ip alone.
C7_SteadyCallsNothing ==
    Steady =>
        /\ startCalls = 0 /\ stopCalls = 0
        /\ is_connected /\ last_ip = pre.ip

\* C7 (amended): in the steady state the poll step never calls _stop_server,
\* leaves is_connected and last_ip alone, and calls _start_server only when
\* _is_server_running (line 244) is false, and then exactly once.
C7_SteadyStartsOnlyIfDown ==
    Steady =>
        /\ stopCalls = 0
        /\ is_connected /\ last_ip = pre.ip
        /\ runSeen # "none"
        /\ startCalls = (IF runSeen = "false" THEN 1 ELSE 0)

C7_Witness ==
    Steady /\ runSeen = "true" /\ startCalls = 0 /\ stopCalls = 0

\* C8: from the initial Disconnected state, for as long as every poll step
\* observes no address, the state is Disconnected, last_ip is None and
\* neither _start_server nor _stop_server has been called.
C8_NoAddressKeepsDisconnected ==
    onlyNoAddr =>
        /\ ~is_connected /\ last_ip = None
        /\ pc = "sleep"
        /\ startCalls = 0 /\ stopCalls = 0 /\ launches = 0

C8_Witness ==
    onlyNoAddr /\ poll_done /\ ObsNoAddr /\ Matching(procs) # {}

\* an address change while Connected
Changed == poll_done /\ pre.conn /\ ObsOk /\ obs.ip # pre.ip

\* C9 (as stated): Connected with X, and the poll step observes Y # X with
\* internet: Y recorded, still Connected, _start_server called exactly once,
\* no _stop_server.
C9_ChangeStartsOnce ==
    Changed =>
        /\ is_connected /\ last_ip = obs.ip
        /\ startCalls = 1 /\ stopCalls = 0

\* C9 (amended): Connected with X, and the poll step observes Y # X with
\* internet: Y recorded, still Connected, no _stop_server, and
\* _start_server is called exactly once when _is_server_running (line 238)
\* is false and not at all when the broadcaster is running.
C9_ChangeStartsUnlessRunning ==
    Changed =>
        /\ is_connected /\ last_ip = obs.ip
        /\ stopCalls = 0
        /\ runSeen # "none"
        /\ startCalls = (IF runSeen = "false" THEN 1 ELSE 0)

C9_Witness ==
    Changed /\ pre.ip # None /\ last_ip = obs.ip /\ runSeen = "false" /\ startCalls = 1

\* C10: a call of _start_server that finds _is_server_running true (line
\* 151) launches nothing, leaves server_process and the process table as
\* they are, and returns True.
C10_StartIdempotent ==
    [][ (pc = "start_chk" /\ pc' # "start_chk" /\ startSeen' = "true") =>
            /\ pc' = "sleep"
            /\ startRet' = "true"
            /\ launches' = launches
            /\ server_process' = server_process
            /\ popen_ret' = popen_ret
            /\ procs' = procs ]_vars

\* C10 witness: _start_server was called, found a server running and returned
C10_Witness ==
    poll_done /\ startCalls = 1 /\ startSeen = "true" /\ startRet = "true"
        /\ launches = 0 /\ Matching(procs) # {}

\* C11: a call of _stop_server made when no process matches the signature
\* and no handle is held returns to its caller without raising, signals no
\* process, leaves server_process None and leaves is_connected and last_ip
\* as they are.
C11_StopWhenNothingRunning ==
    [][ (/\ pc = "stop_pkill" /\ pc' # "stop_pkill"
         /\ Matching(procs) = {} /\ server_process = None) =>
            /\ pc' = "sleep" /\ poll_done'
            /\ procs' = procs
            /\ server_process' = None
            /\ is_connected' = is_connected
            /\ last_ip' = last_ip ]_vars

\* C11 witness: _stop_server has returned and no process has ever existed
C11_Witness ==
    /\ poll_done /\ stopCalls = 1 /\ server_process = None
    /\ \A p \in Pids : procs[p].st = "free"

\* C12 (as stated): after _stop_server has returned, no process matching
\* the broadcaster signature is running, whoever launched it and whether
\* or not it exits on SIGTERM.
C12_StopTerminates ==
    (poll_done /\ stopCalls = 1) => Matching(procs) = {}

\* C20: in the steady state (Connected, the same address observed with
\* internet) the poll step tests _is_server_running, and when it is false
\* (the broadcaster died, or the previous start failed) it calls
\* _start_server, once.
C20_SelfHealing ==
    Steady =>
        /\ runSeen # "none"
        /\ (runSeen = "false" => (startCalls = 1 /\ startSeen # "none"))

\* C20 witness: a steady-state poll step found no server and launched one
C20_Witness ==
    Steady /\ runSeen = "false" /\ startCalls = 1 /\ launches = 1

\* C13: when the supervisor process has exited after a termination signal,
\* _stop_server has been called since that signal arrived, whatever the
\* supervisor was doing when it arrived.
C13_StopBeforeExit ==
    pc = "exited" => sigStop

\* C13 witness: the supervisor was Connected and inside _start_server,
\* between Popen and the assignment of the handle, when the signal arrived;
\* it has exited
C13_Witness ==
    /\ pc = "exited" /\ sigStop /\ is_connected
    /\ popen_ret # None

(***************************************************************************)
(* Claims about the detector.                                              *)
(***************************************************************************)
\* the numeric value of the i-th part
Octet(s, i) == TokVal(s.parts[i])

\* a well-formed dotted quad: four decimal parts between 0 and 255
DottedQuad(s) ==
    /\ s.tail = "" /\ Len(s.parts) = 4
    /\ \A i \in 1..4 : s.parts[i] \in DecimalTokens /\ Octet(s, i) \in 0..255

\* 127.0.0.0/8 and 169.254.0.0/16
InLoopback(s) == Octet(s, 1) = 127
InLinkLocal(s) == Octet(s, 1) = 169 /\ Octet(s, 2) = 254

\* C14 (as stated): get_interface_ip stops at the first method that yields
\* an address (method 1's address is returned with methods 2 and 3 not
\* entered, method 2's with method 3 not entered), and when no method
\* yields an address, whatever made each one fail, it returns None.
C14_FirstStrategyWins ==
    detect_call.ret.kind # "uncalled" =>
        LET env == detect_call.env IN
        /\ Method1(env).kind = "addr" =>
              detect_call.ret = Method1(env) /\ detect_call.tried = {1}
        /\ (Method1(env).kind # "addr" /\ Method2(env).kind = "addr") =>
              detect_call.ret = Method2(env) /\ detect_call.tried = {1, 2}
        /\ (/\ Method1(env).kind # "addr"
            /\ Method2(env).kind # "addr"
            /\ Method3(env).kind # "addr") =>
              detect_call.ret.kind = "none"

\* C15 (as stated): an address returned by get_interface_ip is neither in
\* 127.0.0.0/8 nor in 169.254.0.0/16, whichever method produced it.
C15_NeverLoopbackOrLinkLocal ==
    detect_call.ret.kind = "addr" =>
        ~InLoopback(detect_call.ret.addr) /\ ~InLinkLocal(detect_call.ret.addr)

\* C16 (as stated): _is_valid_ip returns False for a dotted quad in
\* 127.0.0.0/8 or 169.254.0.0/16, True for every other well-formed dotted
\* quad, and False, without raising, for a string that inet_aton does not
\* parse.
C16_FilterTotal ==
    valid_call.ret # "uncalled" =>
        LET s == valid_call.ip IN
        /\ (DottedQuad(s) /\ (InLoopback(s) \/ InLinkLocal(s))) =>
              valid_call.ret = "false"
        /\ (DottedQuad(s) /\ ~InLoopback(s) /\ ~InLinkLocal(s)) =>
              valid_call.ret = "true"
        /\ InetAton(s) # "ok" => valid_call.ret = "false"

(***************************************************************************)
(* Claims about unregistration and about the broadcast loop, checked       *)
(* under SpecBroadcast.                                                    *)
(***************************************************************************)
\* C17 (as stated): unregister_client is called exactly once for every
\* connection: never a second time, and once by the time the connection's
\* handler has ended, whichever way the connection ended.
C17_UnregisteredOnce ==
    \A c \in Clients :
        /\ unreg[c] <= 1
        /\ ws[c] = "done" => unreg[c] = 1

\* C18: no failure ends the broadcast loop.  The loop is always sleeping or
\* sending, and a tick that ended on a serialization failure, on a failed
\* send, on an error of the sweep or on an error of the iteration has left
\* the loop in its sleep, from which the next tick starts.
C18_LoopSurvivesFailures ==
    /\ bpc \in {"sleep", "sending"}
    /\ (/\ tick_done
        /\ \/ tick_result \in {"skipped", "sweep_error", "aborted"}
           \/ disconnected_clients # {}) =>
          (bpc = "sleep" /\ ENABLED TickStart)

\* C18 witness: a tick with a failed send ended on an error of the sweep
\* that left a failed connection registered, and the loop sleeps
C18_Witness ==
    /\ tick_done /\ tick_result = "sweep_error" /\ bpc = "sleep"
    /\ disconnected_clients \cap connected_clients # {}

\* C19 (as stated): when the server process has exited, it has stopped
\* accepting connections, has cancelled the broadcast task and has released
\* its listener.
C19_GracefulShutdown ==
    mpc = "exited" =>
        /\ server # "serving"
        /\ broadcast_task = "cancelled"
        /\ server = "closed"

(***************************************************************************)
(* Claims about _stop_server with a held handle, checked under Spec.       *)
(***************************************************************************)
\* C21 (as stated): a call of _stop_server with a handle held sends SIGTERM
\* to every process of the handle's group and then waits; when the wait ends
\* with the launched process still running, that process has had SIGTERM
\* and every process of its group gets SIGKILL; when the launched process
\* has exited by then, no process is signalled.
C21_StopEscalates ==
    [][ /\ (pc = "stop_pkill" /\ pc' # "stop_pkill" /\ server_process # None) =>
              pc' = "stop_killpg"
        /\ (/\ pc = "stop_killpg" /\ pc' # "stop_killpg"
            /\ Alive(procs, server_process)) =>
              /\ pc' = "stop_wait"
              /\ \A p \in Group(procs, server_process) : procs'[p].term
        /\ (pc = "stop_wait" /\ pc' # "stop_wait") =>
              IF Alive(procs, server_process)
              THEN /\ procs[server_process].term
                   /\ \A p \in Pids :
                        procs'[p] = IF p \in Group(procs, server_process)
                                    THEN KilledProc ELSE procs[p]
              ELSE procs' = procs ]_vars

\* C22 (as stated): after every call of _stop_server has returned,
\* server_process is None, whichever path the call took.
C22_HandleClearedAfterStop ==
    (poll_done /\ stopCalls = 1) => server_process = None

(***************************************************************************)
(* Claims about the content of a tick, checked under SpecBroadcast.        *)
(***************************************************************************)
\* C23: a tick over an empty registry calls neither get_stats nor json.dumps
\* and sends nothing; a tick over a non-empty registry calls each of them
\* once, and every connection a send of the tick has delivered to has got
\* the tick's one serialized snapshot.
C23_OneSnapshotPerTick ==
    /\ (tick_done /\ tick_result = "idle") =>
          /\ collected = 0 /\ serialized = 0
          /\ delivered = {}
          /\ \A c \in Clients : got[c] = None
    /\ (bpc = "sending" \/ (tick_done /\ tick_result # "idle")) =>
          /\ collected = 1 /\ serialized = 1
          /\ \A c \in delivered : got[c] = stats_json
          /\ \A c \in Clients \ delivered : got[c] = None

\* C23 witness: a tick has delivered its snapshot to two connections and,
\* one send having failed, has swept the registry
C23_Witness ==
    /\ tick_done /\ tick_result = "swept"
    /\ Cardinality(delivered) = 2
    /\ disconnected_clients # {}
    /\ stats_json = 2

\* C24 (as stated): a tick during which connections were registered or
\* unregistered is not aborted, has attempted a send to every connection
\* that was registered when it began and is still open, and has removed
\* every connection whose send failed.
C24_SafeEnumeration ==
    (tick_done /\ tick_result \in {"swept", "aborted"}) =>
        /\ tick_result # "aborted"
        /\ \A c \in tick_members :
              ws[c] = "open" => c \in delivered \cup disconnected_clients
        /\ connected_clients \cap disconnected_clients = {}

\* C25: a connection whose handler's receive loop has ended, on whatever
\* path, is not a member of the registry, whether or not a tick has had a
\* send to it fail.
C25_EndedHandlerNotRegistered ==
    \A c \in Clients : ws[c] = "done" => c \notin connected_clients

\* C25 witness: a connection has ended and its handler has removed it, no
\* send to it ever having failed, while another connection is registered
C25_Witness ==
    \E c \in Clients :
        /\ ws[c] = "done" /\ c \notin failed /\ unreg[c] = 1
        /\ c \notin connected_clients
        /\ connected_clients # {}

(***************************************************************************)
(* Claims about the processes _start_server launches.                      *)
(***************************************************************************)
\* C26: _start_server never launches a process while the process of an
\* earlier launch, the one the handle refers to, is still alive, whether or
\* not that process matches the signature yet, and never replaces a handle
\* to a live process by another handle.
C26_SingleLaunch ==
    [][ (/\ server_process # None
         /\ Alive(procs, server_process)) =>
            /\ popen_ret' \in {popen_ret, None}
            /\ server_process' \in {server_process, None} ]_vars

\* the positions inside _start_server: before the launch, between the launch
\* and the assignment of the handle, and in the settle wait
InStart == {"start_chk", "start_launch", "start_assign", "start_settle"}

\* C27: when the signal arrived while _start_server was executing, every
\* process the supervisor launched and that is still alive at the moment the
\* supervisor exits has been sent SIGTERM.
C27_LaunchedSignalledAtExit ==
    [][ (pc = "sys_exit" /\ pc' = "exited" /\ saved_pc \in InStart) =>
            \A p \in {popen_ret', server_process'} \ {None} :
                Alive(procs', p) => procs'[p].term ]_vars

(***************************************************************************)
(* Claims about the recorded state of the supervisor, checked under Spec.  *)
(***************************************************************************)
\* the positions inside _stop_server
InStop == {"stop_pkill", "stop_killpg", "stop_wait"}

\* C28: at every moment between and during poll steps, whatever the
\* detector and the probe report, a supervisor that is Connected has a
\* recorded address; and no step of _start_server or _stop_server changes
\* is_connected or last_ip.
C28_ConnectedHasAddress ==
    /\ [](is_connected => last_ip \in Addrs)
    /\ [][ (pc \in InStart \cup InStop) =>
              (is_connected' = is_connected /\ last_ip' = last_ip) ]_vars

\* C28 witness: Connected with the second address recorded, after a change
\* of address whose poll step went through _start_server and launched a
\* process
C28_Witness ==
    /\ poll_done /\ is_connected /\ last_ip = 2
    /\ pre.conn /\ pre.ip = 1
    /\ launches = 1 /\ server_process # None

====
